---- MODULE Spec2Model ----
(***************************************************************************)
(* Model of utils/data.py: the KITTI dataset loaders                        *)
(* (load_kitti_semantics_dataset, load_kitti_depth_dataset), the dataset    *)
(* containers, generate_mask and show_image.                                *)
(*                                                                          *)
(* A file name is a sequence of words ("_" and ".png" are words), so that   *)
(* str.split("_image_") is computed on the text and not assumed.  An image  *)
(* is a record [mode, px]: px is its raster, here a short row of integers.  *)
(* A tensor is a record [shape, data, norm]: shape is the torch shape after *)
(* Resize, data the raster the tensor was resampled from, norm the          *)
(* normalisation that produced it.  The lists hold tensor objects           *)
(* [origin, tensor]: origin is the enumerated file in whose loop iteration  *)
(* the object was created (each iteration creates fresh objects).           *)
(***************************************************************************)
EXTENDS Integers, Sequences, FiniteSets, TLC

VARIABLES
    files,          \* the paths that exist under load_dir
    broken,         \* the existing paths that do not decode as an image
    loader,         \* "semantics" or "depth": the loader the caller calls
    train,          \* the train argument of load_kitti_depth_dataset
    val_ratio,      \* <<p, q>>: the float p/q
    shuffle,        \* the shuffle argument
    random_state,   \* <<>> for None, <<seed>> for an integer seed
    pc,             \* position of the running call
    err,            \* the exception that ended the call, "" when none
    todo,           \* names the running glob generator has not yielded yet
    visited,        \* paths the glob loops of the running call have yielded, in order
    opened,         \* paths handed to load_image by the running call, in order
    X,              \* X (semantics), X_color / X_color_test (depth)
    Y,              \* Y, Y_test (depth)
    X_sensor,       \* X_sensor / X_sensor_test
    X_mask,         \* X_mask / X_mask_test
    X_test,         \* X_test (semantics)
    Y_test,         \* Y_test (semantics)
    split,          \* <<>> or <<the lists train_test_split returned>>
    result,         \* <<>> or <<the containers returned to the caller>>
    prev,           \* <<>> or <<the train/validation split the previous call returned>>
    mask_in,        \* generate_mask: the image passed in
    mask_out,       \* generate_mask: <<>> or <<the image returned>>
    show_in,        \* show_image: the value passed in
    show_out        \* show_image: <<>> or <<what was handed to imshow, or the error>>

loaderVars == <<files, broken, loader, train, val_ratio, shuffle, random_state,
                pc, err, todo, visited, opened, X, Y, X_sensor, X_mask,
                X_test, Y_test, split, result, prev>>
maskVars == <<mask_in, mask_out>>
showVars == <<show_in, show_out>>
vars == <<loaderVars, maskVars, showVars>>

\* ---------------------------------------------------------------- bounds

\* Most files a glob pattern of the training/validation set matches.
MaxFiles == 3
\* Most files a glob pattern of the test set matches.
MaxTestFiles == 2
\* Most pixels of an image handed to generate_mask directly.
MaxPixels == 3
\* Largest extent of a height or width axis handed to show_image.
MaxDim == 4

\* ------------------------------------------------------------- constants

\* transforms.Resize((352, 1216))
ResizeHeight == 352
ResizeWidth == 1216

\* ------------------------------------------------------------ file names

FrameIds == <<"0", "1", "2", "3", "4", "5">>

\* The token of filename.name.split("_image_").
IMAGE_TOKEN == <<"_", "image", "_">>
VELODYNE_TOKEN == <<"_", "velodyne", "_", "raw", "_">>
GROUNDTRUTH_TOKEN == <<"_", "groundtruth", "_", "depth", "_">>

\* A KITTI depth name, "drive_sync_image_<frame>_image_02.png".
KittiName(f) == <<"drive", "_", "sync">> \o IMAGE_TOKEN \o <<f>> \o IMAGE_TOKEN \o <<"02", ".png">>
\* "drive_<frame>.png": no token.
NameNoToken(f) == <<"drive", "_", f, ".png">>
\* "drive_image_<frame>.png": one token.
NameOneToken(f) == <<"drive">> \o IMAGE_TOKEN \o <<f, ".png">>
\* "drive_image_<frame>_image_02_image_03.png": three tokens.
NameThreeTokens(f) == <<"drive">> \o IMAGE_TOKEN \o <<f>> \o IMAGE_TOKEN \o <<"02">> \o IMAGE_TOKEN \o <<"03", ".png">>
\* A KITTI semantics name, "<frame>_10.png".
SemName(f) == <<f, "_", "10", ".png">>

\* First index >= i at which sep occurs in s, 0 when there is none.
RECURSIVE Find(_, _, _)
Find(s, sep, i) ==
    IF i + Len(sep) - 1 > Len(s) THEN 0
    ELSE IF SubSeq(s, i, i + Len(sep) - 1) = sep THEN i
    ELSE Find(s, sep, i + 1)

\* str.split(sep): the pieces between the non-overlapping occurrences of sep,
\* found left to right.
RECURSIVE StrSplit(_, _)
StrSplit(s, sep) ==
    LET i == Find(s, sep, 1) IN
    IF i = 0 THEN <<s>>
    ELSE <<SubSeq(s, 1, i - 1)>> \o StrSplit(SubSeq(s, i + Len(sep), Len(s)), sep)

\* str.count(sep): the number of non-overlapping occurrences of sep.
RECURSIVE StrCount(_, _)
StrCount(s, sep) ==
    LET i == Find(s, sep, 1) IN
    IF i = 0 THEN 0 ELSE 1 + StrCount(SubSeq(s, i + Len(sep), Len(s)), sep)

Path(dir, name) == [dir |-> dir, name |-> name]

\* load_dir.glob("<dir>/*.png"): the names of the files of dir that end in .png.
Glob(dir) == {p.name : p \in {q \in files : q.dir = dir /\ q.name[Len(q.name)] = ".png"}}

\* ------------------------------------------------------------ the disk

SEM_IMAGE_DIR == "training/image_2"
SEM_TARGET_DIR == "training/semantic_rgb"
SEM_TEST_DIR == "testing/image_2"
DEPTH_IMAGE_DIR == "val_selection_cropped/image"
DEPTH_VELODYNE_DIR == "val_selection_cropped/velodyne_raw"
DEPTH_GROUNDTRUTH_DIR == "val_selection_cropped/groundtruth_depth"
DEPTH_TEST_IMAGE_DIR == "test_depth_completion_anonymous/image"
DEPTH_TEST_VELODYNE_DIR == "test_depth_completion_anonymous/velodyne_raw"

\* A KITTI depth test name, "<frame>.png".
TestName(f) == <<f, ".png">>

\* The frame a file name carries.
FrameIndex(name) ==
    CHOOSE i \in 1..Len(FrameIds) : \E j \in 1..Len(name) : name[j] = FrameIds[i]

\* Rasters of the sparse-depth files, by frame: 0 where there is no reading.
SparseRows == << <<0, 0>>, <<0, 5>>, <<3, 0>>, <<7, 1>>, <<0, 9>>, <<2, 2>> >>

\* The image a decodable file of the data set holds: 8-bit RGB for the colour
\* and label images, 16-bit single-channel for the depth maps.
ReadFile(path) ==
    LET i == FrameIndex(path.name) IN
    IF path.dir \in {DEPTH_VELODYNE_DIR, DEPTH_TEST_VELODYNE_DIR}
    THEN [mode |-> "I;16", px |-> SparseRows[i]]
    ELSE IF path.dir = DEPTH_GROUNDTRUTH_DIR
    THEN [mode |-> "I;16", px |-> [k \in 1..2 |-> SparseRows[i][k] + 1]]
    ELSE IF path.dir = SEM_TARGET_DIR
    THEN [mode |-> "RGB", px |-> <<i, 200 + i>>]
    ELSE [mode |-> "RGB", px |-> <<100 + i, i>>]

\* The exception Image.open raises on path, "" when it returns an image.
LoadError(path) ==
    IF path \notin files THEN "FileNotFoundError"
    ELSE IF path \in broken THEN "UnidentifiedImageError"
    ELSE ""

load_image(path) == ReadFile(path)

\* ------------------------------------------------------ images and tensors

Channels(mode) == IF mode = "RGB" THEN 3 ELSE 1

\* Image.convert("F"): one float channel, the pixel values kept.
ConvertF(image) == [mode |-> "F", px |-> image.px]

\* Resize((352, 1216)), ToTensor(), Normalize(ImageNet mean, std).
preprocess_c(image) ==
    [shape |-> <<Channels(image.mode), ResizeHeight, ResizeWidth>>,
     data |-> image.px, norm |-> "imagenet"]

\* Resize((352, 1216)), ToTensor(), Normalize(mean 0, std 1).
preprocess_d(image) ==
    [shape |-> <<Channels(image.mode), ResizeHeight, ResizeWidth>>,
     data |-> image.px, norm |-> "unit"]

\* torch.zeros_like: the shape of its argument, every element 0.
zeros_like(t) ==
    [shape |-> t.shape, data |-> [k \in 1..Len(t.data) |-> 0], norm |-> "zeros"]

\* A tensor object created in the loop iteration of the enumerated file name.
Obj(name, t) == [origin |-> name, tensor |-> t]

Origins(list) == [k \in 1..Len(list) |-> list[k].origin]
Range(seq) == {seq[k] : k \in 1..Len(seq)}

\* mask[mask > 0.0] = 1.0 on the array: elements above zero become 1, the
\* others are left as they are.
Binarise(a) == [k \in 1..Len(a) |-> IF a[k] > 0 THEN 1 ELSE a[k]]

\* generate_mask shares the pixel buffer of its argument (np.asarray in place
\* of np.array): the caller's image is binarised too.
generate_mask_inplace(image) ==
    [ret |-> [mode |-> image.mode, px |-> Binarise(image.px)],
     arg |-> [mode |-> image.mode, px |-> Binarise(image.px)]]

\* generate_mask: ret is the image returned, arg the caller's image object as
\* the call leaves it (np.array(image) copies the pixels, so it is untouched).
generate_mask(image) ==
    [ret |-> [mode |-> image.mode, px |-> Binarise(image.px)],
     arg |-> image]

\* ------------------------------------------------------- depth file names

\* The suffix is taken from the second piece alone, without the third.
ParseDepthNameShort(name) ==
    LET filename == StrSplit(name, IMAGE_TOKEN) IN
    IF Len(filename) < 3
    THEN [error |-> "IndexError", prefix |-> <<>>, suffix |-> <<>>]
    ELSE [error |-> "", prefix |-> filename[1], suffix |-> filename[2]]

\* A name that splits into fewer than three pieces is accepted: the prefix is
\* its first piece and the suffix its last.
ParseDepthNameLenient(name) ==
    LET filename == StrSplit(name, IMAGE_TOKEN) IN
    IF Len(filename) < 3
    THEN [error |-> "", prefix |-> filename[1], suffix |-> filename[Len(filename)]]
    ELSE [error |-> "", prefix |-> filename[1],
          suffix |-> filename[2] \o IMAGE_TOKEN \o filename[3]]

\* filename = filename.name.split("_image_")
\* file_prefix, file_suffix = filename[0], f"{filename[1]}_image_{filename[2]}"
\* filename[2] raises IndexError when the split has fewer than three pieces.
ParseDepthName(name) ==
    LET filename == StrSplit(name, IMAGE_TOKEN) IN
    IF Len(filename) < 3
    THEN [error |-> "IndexError", prefix |-> <<>>, suffix |-> <<>>]
    ELSE [error |-> "", prefix |-> filename[1],
          suffix |-> filename[2] \o IMAGE_TOKEN \o filename[3]]

VelodynePath(parsed) ==
    Path(DEPTH_VELODYNE_DIR, parsed.prefix \o VELODYNE_TOKEN \o parsed.suffix)
GroundtruthPath(parsed) ==
    Path(DEPTH_GROUNDTRUTH_DIR, parsed.prefix \o GROUNDTRUTH_TOKEN \o parsed.suffix)

\* ------------------------------------------------------- train_test_split

CeilDiv(a, b) == (a + b - 1) \div b

\* _validate_shuffle_split: n_test = ceil(test_size * n_samples),
\* n_train = n_samples - n_test.
NTest(n, ratio) == CeilDiv(ratio[1] * n, ratio[2])
NTrain(n, ratio) == n - NTest(n, ratio)

\* The ValueError of train_test_split: a test_size outside (0, 1), or an
\* empty resulting train set (also for no samples at all).
SplitError(n, ratio) ==
    IF ratio[1] <= 0 \/ ratio[1] >= ratio[2] THEN "ValueError"
    ELSE IF NTrain(n, ratio) = 0 THEN "ValueError"
    ELSE ""

AllPermutations(n) ==
    {p \in [1..n -> 1..n] : \A a, b \in 1..n : p[a] = p[b] => a = b}

Swap(p, a, b) == [p EXCEPT ![a] = p[b], ![b] = p[a]]

\* The generator's next state; stands for the seeded bit generator of numpy.
NextRandom(s) == (s * 5 + 3) % 16

RECURSIVE ShuffleFrom(_, _, _)
ShuffleFrom(p, i, s) ==
    IF i < 2 THEN p
    ELSE ShuffleFrom(Swap(p, i, 1 + (NextRandom(s) % i)), i - 1, NextRandom(s))

\* RandomState(seed).permutation(n): decided by seed and n alone.
SeededPermutation(seed, n) == ShuffleFrom([k \in 1..n |-> k], n, seed)

\* The permutations rng.permutation(n) can return under random_state.
PermutationsOf(rs, n) ==
    IF rs = <<>> THEN AllPermutations(n) ELSE {SeededPermutation(rs[1], n)}

\* test = permutation[:n_test], train = permutation[n_test - 1:]: one position
\* is handed to both sides.
ShuffleSplitIndicesOverlap(perm, ntrain, ntest) ==
    [test |-> SubSeq(perm, 1, ntest),
     train |-> SubSeq(perm, ntest, ntest + ntrain)]

\* ShuffleSplit: test = permutation[:n_test],
\* train = permutation[n_test:n_test + n_train].
ShuffleSplitIndices(perm, ntrain, ntest) ==
    [test |-> SubSeq(perm, 1, ntest),
     train |-> SubSeq(perm, ntest + 1, ntest + ntrain)]

\* shuffle=False: train = arange(n_train), test = arange(n_train, n_train + n_test).
SequentialIndices(ntrain, ntest) ==
    [train |-> [k \in 1..ntrain |-> k],
     test |-> [k \in 1..ntest |-> ntrain + k]]

\* The index pairs the split can use for n samples under the call's arguments.
SplitIndices(n) ==
    LET ntest == NTest(n, val_ratio)
        ntrain == NTrain(n, val_ratio) IN
    IF shuffle
    THEN {ShuffleSplitIndices(p, ntrain, ntest) : p \in PermutationsOf(random_state, n)}
    ELSE {SequentialIndices(ntrain, ntest)}

\* _safe_indexing(a, indices) on a list.
SafeIndexing(a, indices) == [k \in 1..Len(indices) |-> a[indices[k]]]

\* ------------------------------------------------------------- containers

\* torch.stack raises on an empty list and on tensors of different shapes.
StackError(list) ==
    IF Len(list) = 0 THEN "RuntimeError"
    ELSE IF \E a, b \in 1..Len(list) : list[a].tensor.shape # list[b].tensor.shape
    THEN "RuntimeError"
    ELSE ""

KittiSemanticsDataset(Xs, Ys) == [X |-> Xs, Y |-> Ys]
KittiDepthDataset(Xc, Xs, Xm, Ys) == [X |-> Xc, X_sensor |-> Xs, X_mask |-> Xm, Y |-> Ys]

DatasetLen(ds) == Len(ds.X)
SemanticsGetItem(ds, index) == <<ds.X[index], ds.Y[index]>>
DepthGetItem(ds, index) ==
    <<ds.X[index], ds.X_sensor[index], ds.X_mask[index], ds.Y[index]>>

\* ------------------------------------------------------- the directories

FirstFrames(k) == {FrameIds[i] : i \in 1..k}

\* A semantics data set of k training pairs and j test images.
SemTree(k, j) ==
    {Path(SEM_IMAGE_DIR, SemName(f)) : f \in FirstFrames(k)}
    \cup {Path(SEM_TARGET_DIR, SemName(f)) : f \in FirstFrames(k)}
    \cup {Path(SEM_TEST_DIR, SemName(f)) : f \in FirstFrames(j)}

\* The files of val_selection_cropped that go with the colour image name:
\* the name with its first _image_ replaced.
Siblings(name) ==
    LET i == Find(name, IMAGE_TOKEN, 1)
        prefix == SubSeq(name, 1, i - 1)
        suffix == SubSeq(name, i + Len(IMAGE_TOKEN), Len(name)) IN
    IF i = 0 THEN {}
    ELSE {Path(DEPTH_VELODYNE_DIR, prefix \o VELODYNE_TOKEN \o suffix),
          Path(DEPTH_GROUNDTRUTH_DIR, prefix \o GROUNDTRUTH_TOKEN \o suffix)}

\* A depth training directory holding the colour images names.
DepthTrainTree(names) ==
    {Path(DEPTH_IMAGE_DIR, n) : n \in names} \cup UNION {Siblings(n) : n \in names}

\* A depth test directory of j images.
DepthTestTree(j) ==
    {Path(DEPTH_TEST_IMAGE_DIR, TestName(f)) : f \in FirstFrames(j)}
    \cup {Path(DEPTH_TEST_VELODYNE_DIR, TestName(f)) : f \in FirstFrames(j)}

\* Colour image names that do not follow the KITTI pattern.
OddNames == {NameNoToken("0"), NameOneToken("0"), NameThreeTokens("0")}

DepthListings ==
    {{KittiName(f) : f \in FirstFrames(k)} : k \in 0..MaxFiles}
    \cup {{KittiName(FrameIds[i + 1]) : i \in 1..k} \cup {odd} :
            k \in 0..(MaxFiles - 1), odd \in OddNames}

\* The data sets a call can be pointed at, each with the loader that reads it.
Trees ==
    {[loader |-> "semantics", train |-> TRUE, paths |-> SemTree(k, j)] :
        k \in 0..MaxFiles, j \in 0..MaxTestFiles}
    \cup {[loader |-> "depth", train |-> TRUE, paths |-> DepthTrainTree(names)] :
        names \in DepthListings}
    \cup {[loader |-> "depth", train |-> FALSE, paths |-> DepthTestTree(j)] :
        j \in 0..MaxTestFiles}

EnumeratedDirs == {SEM_IMAGE_DIR, SEM_TEST_DIR, DEPTH_IMAGE_DIR, DEPTH_TEST_IMAGE_DIR}

\* What can be wrong with a data set: nothing, one paired file absent, or one
\* file that is no image.  The first failing file ends the call, so a second
\* fault adds no behaviour.
Faults(paths) ==
    {[missing |-> {}, broken |-> {}]}
    \cup {[missing |-> {p}, broken |-> {}] : p \in {q \in paths : q.dir \notin EnumeratedDirs}}
    \cup {[missing |-> {}, broken |-> {p}] : p \in paths}

\* The arguments of a call: val_ratio 0.2 (the default) or 0.5;
\* shuffle=False, or shuffle=True with random_state None, 0 or 1.
Arguments ==
    {[val_ratio |-> r, shuffle |-> a[1], random_state |-> a[2]] :
        r \in {<<1, 5>>, <<1, 2>>},
        a \in {<<FALSE, <<>> >>, <<TRUE, <<>> >>, <<TRUE, <<0>> >>, <<TRUE, <<1>> >>}}

\* ------------------------------------------------------------ the machine

\* The variables of generate_mask and show_image called on their own.
MaskIdle == mask_in = [mode |-> "L", px |-> <<0>>] /\ mask_out = <<>>
ShowIdle == show_in = [type |-> "ndarray", axes |-> <<"H", "W", "C">>, shape |-> <<1, 1, 1>>]
            /\ show_out = <<>>

Init ==
    /\ \E tree \in Trees : \E fault \in Faults(tree.paths) :
        /\ files = tree.paths \ fault.missing
        /\ broken = fault.broken
        /\ loader = tree.loader
        /\ train = tree.train
    /\ \E a \in Arguments :
        /\ val_ratio = a.val_ratio
        /\ shuffle = a.shuffle
        /\ random_state = a.random_state
    /\ pc = "idle" /\ err = ""
    /\ todo = {} /\ visited = <<>> /\ opened = <<>>
    /\ X = <<>> /\ Y = <<>> /\ X_sensor = <<>> /\ X_mask = <<>>
    /\ X_test = <<>> /\ Y_test = <<>>
    /\ split = <<>> /\ result = <<>> /\ prev = <<>>
    /\ MaskIdle /\ ShowIdle

ArgVars == <<files, broken, loader, train, val_ratio, shuffle, random_state>>
OtherVars == <<maskVars, showVars>>

\* The train/validation split of returned containers, as the files the
\* samples come from, in container order.
SplitOf(r) == [train |-> Origins(r.train.X), val |-> Origins(r.val.X)]

\* The caller calls the loader: a fresh call frame.  The split the last
\* returning call handed back is kept for comparison.
Call ==
    /\ pc \in {"idle", "returned", "raised"}
    /\ prev' = IF pc = "returned" /\ train THEN <<SplitOf(result[1])>> ELSE prev
    /\ pc' = IF loader = "depth" /\ ~train THEN "test_loop" ELSE "train_loop"
    /\ todo' = IF loader = "semantics" THEN Glob(SEM_IMAGE_DIR)
               ELSE IF train THEN Glob(DEPTH_IMAGE_DIR)
               ELSE Glob(DEPTH_TEST_IMAGE_DIR)
    /\ err' = "" /\ visited' = <<>> /\ opened' = <<>>
    /\ X' = <<>> /\ Y' = <<>> /\ X_sensor' = <<>> /\ X_mask' = <<>>
    /\ X_test' = <<>> /\ Y_test' = <<>>
    /\ split' = <<>> /\ result' = <<>>
    /\ UNCHANGED <<ArgVars, OtherVars>>

\* The exception is swallowed and the loop goes on to the next file.
RaiseSkipsFile(e) == pc' = pc /\ err' = err /\ result' = result

\* An exception leaves the loader: nothing catches it, the call ends and the
\* caller gets no value.
Raise(e) == pc' = "raised" /\ err' = e /\ result' = <<>>

\* One iteration of the training loop of load_kitti_semantics_dataset, on the
\* file the generator yields next (glob yields in no particular order).
SemTrainIter(filename) ==
    LET image == Path(SEM_IMAGE_DIR, filename)
        target == Path(SEM_TARGET_DIR, filename)
        x == Obj(filename, preprocess_c(load_image(image)))
        y == Obj(filename, preprocess_c(load_image(target))) IN
    /\ pc = "train_loop" /\ loader = "semantics"
    /\ filename \in todo
    /\ todo' = todo \ {filename}
    /\ visited' = Append(visited, image)
    /\ IF LoadError(image) # ""
       THEN /\ Raise(LoadError(image))
            /\ opened' = Append(opened, image)
            /\ UNCHANGED <<X, Y>>
       ELSE IF LoadError(target) # ""
       THEN /\ Raise(LoadError(target))
            /\ opened' = opened \o <<image, target>>
            /\ X' = Append(X, x)
            /\ UNCHANGED Y
       ELSE /\ opened' = opened \o <<image, target>>
            /\ X' = Append(X, x)
            /\ Y' = Append(Y, y)
            /\ UNCHANGED <<pc, err, result>>
    /\ UNCHANGED <<ArgVars, OtherVars, X_sensor, X_mask, X_test, Y_test, split, prev>>

\* train_test_split(X, Y, ...) once the training loop is exhausted, then the
\* test loop starts.
SemSplit ==
    /\ pc = "train_loop" /\ loader = "semantics"
    /\ todo = {}
    /\ IF SplitError(Len(X), val_ratio) # ""
       THEN /\ Raise(SplitError(Len(X), val_ratio))
            /\ UNCHANGED <<split, todo>>
       ELSE /\ \E ix \in SplitIndices(Len(X)) :
                split' = <<[X_train |-> SafeIndexing(X, ix.train),
                            X_val |-> SafeIndexing(X, ix.test),
                            Y_train |-> SafeIndexing(Y, ix.train),
                            Y_val |-> SafeIndexing(Y, ix.test)]>>
            /\ pc' = "test_loop"
            /\ todo' = Glob(SEM_TEST_DIR)
            /\ UNCHANGED <<err, result>>
    /\ UNCHANGED <<ArgVars, OtherVars, visited, opened, X, Y, X_sensor, X_mask,
                   X_test, Y_test, prev>>

\* One iteration of the test loop of load_kitti_semantics_dataset.
SemTestIter(filename) ==
    LET image == Path(SEM_TEST_DIR, filename)
        x == preprocess_c(load_image(image)) IN
    /\ pc = "test_loop" /\ loader = "semantics"
    /\ filename \in todo
    /\ todo' = todo \ {filename}
    /\ visited' = Append(visited, image)
    /\ opened' = Append(opened, image)
    /\ IF LoadError(image) # ""
       THEN /\ Raise(LoadError(image))
            /\ UNCHANGED <<X_test, Y_test>>
       ELSE /\ X_test' = Append(X_test, Obj(filename, x))
            /\ Y_test' = Append(Y_test, Obj(filename, zeros_like(x)))
            /\ UNCHANGED <<pc, err, result>>
    /\ UNCHANGED <<ArgVars, OtherVars, X, Y, X_sensor, X_mask, split, prev>>

\* The three containers are built and returned; torch.stack raises on an
\* empty list.
SemReturn ==
    LET s == split[1]
        e == IF StackError(s.X_train) # "" THEN StackError(s.X_train)
             ELSE IF StackError(s.X_val) # "" THEN StackError(s.X_val)
             ELSE StackError(X_test) IN
    /\ pc = "test_loop" /\ loader = "semantics"
    /\ todo = {}
    /\ IF e # ""
       THEN Raise(e)
       ELSE /\ result' = <<[train |-> KittiSemanticsDataset(s.X_train, s.Y_train),
                            val |-> KittiSemanticsDataset(s.X_val, s.Y_val),
                            test |-> KittiSemanticsDataset(X_test, Y_test)]>>
            /\ pc' = "returned"
            /\ UNCHANGED err
    /\ UNCHANGED <<ArgVars, OtherVars, todo, visited, opened, X, Y, X_sensor, X_mask,
                   X_test, Y_test, split, prev>>

\* One iteration of the train=True loop of load_kitti_depth_dataset.
DepthTrainIter(filename) ==
    LET image == Path(DEPTH_IMAGE_DIR, filename)
        x_c == preprocess_c(load_image(image))
        parsed == ParseDepthName(filename)
        velodyne == VelodynePath(parsed)
        groundtruth == GroundtruthPath(parsed)
        masked == generate_mask(load_image(velodyne))
        x_m == preprocess_d(ConvertF(masked.ret))
        x_s == preprocess_d(ConvertF(masked.arg))
        y == preprocess_d(ConvertF(load_image(groundtruth))) IN
    /\ pc = "train_loop" /\ loader = "depth"
    /\ filename \in todo
    /\ todo' = todo \ {filename}
    /\ visited' = Append(visited, image)
    /\ IF LoadError(image) # ""
       THEN /\ Raise(LoadError(image))
            /\ opened' = Append(opened, image)
            /\ UNCHANGED <<X, X_sensor, X_mask, Y>>
       ELSE IF parsed.error # ""
       THEN /\ Raise(parsed.error)
            /\ opened' = Append(opened, image)
            /\ X' = Append(X, Obj(filename, x_c))
            /\ UNCHANGED <<X_sensor, X_mask, Y>>
       ELSE IF LoadError(velodyne) # ""
       THEN /\ Raise(LoadError(velodyne))
            /\ opened' = opened \o <<image, velodyne>>
            /\ X' = Append(X, Obj(filename, x_c))
            /\ UNCHANGED <<X_sensor, X_mask, Y>>
       ELSE IF LoadError(groundtruth) # ""
       THEN /\ Raise(LoadError(groundtruth))
            /\ opened' = opened \o <<image, velodyne, groundtruth>>
            /\ X' = Append(X, Obj(filename, x_c))
            /\ X_sensor' = Append(X_sensor, Obj(filename, x_s))
            /\ X_mask' = Append(X_mask, Obj(filename, x_m))
            /\ UNCHANGED Y
       ELSE /\ opened' = opened \o <<image, velodyne, groundtruth>>
            /\ X' = Append(X, Obj(filename, x_c))
            /\ X_sensor' = Append(X_sensor, Obj(filename, x_s))
            /\ X_mask' = Append(X_mask, Obj(filename, x_m))
            /\ Y' = Append(Y, Obj(filename, y))
            /\ UNCHANGED <<pc, err, result>>
    /\ UNCHANGED <<ArgVars, OtherVars, X_test, Y_test, split, prev>>

\* What train_test_split returns for the four lists, each indexed with the
\* index pair given for it.
DepthSplitLists(ixColor, ixSensor, ixMask, ixY) ==
    [X_color_train |-> SafeIndexing(X, ixColor.train),
     X_color_val |-> SafeIndexing(X, ixColor.test),
     X_sensor_train |-> SafeIndexing(X_sensor, ixSensor.train),
     X_sensor_val |-> SafeIndexing(X_sensor, ixSensor.test),
     X_mask_train |-> SafeIndexing(X_mask, ixMask.train),
     X_mask_val |-> SafeIndexing(X_mask, ixMask.test),
     Y_train |-> SafeIndexing(Y, ixY.train),
     Y_val |-> SafeIndexing(Y, ixY.test)]

\* The two containers are built from the split lists and returned.
DepthReturnOf(s) ==
    /\ split' = <<s>>
    /\ result' = <<[train |-> KittiDepthDataset(s.X_color_train, s.X_sensor_train,
                                                 s.X_mask_train, s.Y_train),
                    val |-> KittiDepthDataset(s.X_color_val, s.X_sensor_val,
                                               s.X_mask_val, s.Y_val)]>>
    /\ pc' = "returned"
    /\ UNCHANGED err

\* The sparse-depth list is split by a call of its own, with its own draw of
\* the permutation.
DepthSplitReturnSeparately ==
    /\ pc = "train_loop" /\ loader = "depth" /\ train
    /\ todo = {}
    /\ IF SplitError(Len(X), val_ratio) # ""
       THEN /\ Raise(SplitError(Len(X), val_ratio))
            /\ UNCHANGED split
       ELSE \E ix \in SplitIndices(Len(X)) :
                \E ixs \in {SequentialIndices(Len(ix.train), Len(ix.test))} :
                    DepthReturnOf(DepthSplitLists(ix, ixs, ix, ix))
    /\ UNCHANGED <<ArgVars, OtherVars, todo, visited, opened, X, Y, X_sensor, X_mask,
                   X_test, Y_test, prev>>

\* train_test_split(X_color, X_sensor, X_mask, Y, ...) once the loop is
\* exhausted: one index pair for the four lists; then the containers.
DepthSplitReturn ==
    /\ pc = "train_loop" /\ loader = "depth" /\ train
    /\ todo = {}
    /\ IF SplitError(Len(X), val_ratio) # ""
       THEN /\ Raise(SplitError(Len(X), val_ratio))
            /\ UNCHANGED split
       ELSE \E ix \in SplitIndices(Len(X)) :
                DepthReturnOf(DepthSplitLists(ix, ix, ix, ix))
    /\ UNCHANGED <<ArgVars, OtherVars, todo, visited, opened, X, Y, X_sensor, X_mask,
                   X_test, Y_test, prev>>

\* Y_test.append(torch.zeros_like(x_s)): shaped like the sparse-depth tensor.
TestTargetLikeSensor(x_c, x_s) == zeros_like(x_s)

\* Y_test.append(torch.zeros_like(x_c))
TestTarget(x_c, x_s) == zeros_like(x_c)

\* One iteration of the train=False loop of load_kitti_depth_dataset.
DepthTestIter(filename) ==
    LET image == Path(DEPTH_TEST_IMAGE_DIR, filename)
        velodyne == Path(DEPTH_TEST_VELODYNE_DIR, filename)
        x_c == preprocess_c(load_image(image))
        masked == generate_mask(load_image(velodyne))
        x_m == preprocess_d(ConvertF(masked.ret))
        x_s == preprocess_d(ConvertF(masked.arg)) IN
    /\ pc = "test_loop" /\ loader = "depth"
    /\ filename \in todo
    /\ todo' = todo \ {filename}
    /\ visited' = Append(visited, image)
    /\ IF LoadError(image) # ""
       THEN /\ Raise(LoadError(image))
            /\ opened' = Append(opened, image)
            /\ UNCHANGED <<X, X_sensor, X_mask, Y>>
       ELSE IF LoadError(velodyne) # ""
       THEN /\ Raise(LoadError(velodyne))
            /\ opened' = opened \o <<image, velodyne>>
            /\ X' = Append(X, Obj(filename, x_c))
            /\ UNCHANGED <<X_sensor, X_mask, Y>>
       ELSE /\ opened' = opened \o <<image, velodyne>>
            /\ X' = Append(X, Obj(filename, x_c))
            /\ X_sensor' = Append(X_sensor, Obj(filename, x_s))
            /\ X_mask' = Append(X_mask, Obj(filename, x_m))
            /\ Y' = Append(Y, Obj(filename, TestTarget(x_c, x_s)))
            /\ UNCHANGED <<pc, err, result>>
    /\ UNCHANGED <<ArgVars, OtherVars, X_test, Y_test, split, prev>>

\* The test container is built and returned; torch.stack raises on an empty
\* list.
DepthTestReturn ==
    /\ pc = "test_loop" /\ loader = "depth"
    /\ todo = {}
    /\ IF StackError(X) # ""
       THEN Raise(StackError(X))
       ELSE /\ result' = <<[test |-> KittiDepthDataset(X, X_sensor, X_mask, Y)]>>
            /\ pc' = "returned"
            /\ UNCHANGED err
    /\ UNCHANGED <<ArgVars, OtherVars, todo, visited, opened, X, Y, X_sensor, X_mask,
                   X_test, Y_test, split, prev>>

Next ==
    \/ Call
    \/ \E filename \in todo : SemTrainIter(filename)
    \/ SemSplit
    \/ \E filename \in todo : SemTestIter(filename)
    \/ SemReturn
    \/ \E filename \in todo : DepthTrainIter(filename)
    \/ DepthSplitReturn
    \/ \E filename \in todo : DepthTestIter(filename)
    \/ DepthTestReturn

\* The loaders, called again and again on one directory with one set of
\* arguments.
Spec == Init /\ [][Next]_vars

\* ---------------------------------------------------- generate_mask alone

\* No loader call is running.
LoaderIdle ==
    /\ files = {} /\ broken = {}
    /\ loader = "depth" /\ train = TRUE
    /\ val_ratio = <<1, 5>> /\ shuffle = TRUE /\ random_state = <<>>
    /\ pc = "idle" /\ err = ""
    /\ todo = {} /\ visited = <<>> /\ opened = <<>>
    /\ X = <<>> /\ Y = <<>> /\ X_sensor = <<>> /\ X_mask = <<>>
    /\ X_test = <<>> /\ Y_test = <<>>
    /\ split = <<>> /\ result = <<>> /\ prev = <<>>

RECURSIVE SeqsUpTo(_, _)
SeqsUpTo(S, n) ==
    IF n = 0 THEN {<<>>}
    ELSE SeqsUpTo(S, n - 1) \cup {Append(q, v) : q \in SeqsUpTo(S, n - 1), v \in S}

\* Pixel values the unsigned modes (8-bit L, 16-bit I;16) and the signed modes
\* (32-bit integer I, float F) of PIL can hold.
UnsignedPixels == {0, 1, 3, 5}
SignedPixels == {-2, 0, 1, 5}

MaskInputs ==
    {[mode |-> m, px |-> q] :
        m \in {"L", "I;16"}, q \in SeqsUpTo(UnsignedPixels, MaxPixels) \ {<<>>}}
    \cup {[mode |-> m, px |-> q] :
        m \in {"I", "F"}, q \in SeqsUpTo(SignedPixels, MaxPixels) \ {<<>>}}

InitMask ==
    /\ LoaderIdle /\ ShowIdle
    /\ mask_in \in MaskInputs
    /\ mask_out = <<>>

\* generate_mask(mask_in) is called.
GenerateMaskCall ==
    /\ mask_out = <<>>
    /\ mask_out' = <<generate_mask(mask_in).ret>>
    /\ mask_in' = generate_mask(mask_in).arg
    /\ UNCHANGED <<loaderVars, showVars>>

NextMask == GenerateMaskCall

SpecMask == InitMask /\ [][NextMask]_vars

\* ------------------------------------------------------- show_image alone

CHW == <<"C", "H", "W">>
HWC == <<"H", "W", "C">>

\* The values show_image is called with: a Tensor or ndarray in either layout,
\* a PIL RGB image (np.array of it is height x width x 3), or another type.
ShowInputs ==
    {[type |-> t, axes |-> CHW, shape |-> <<c, h, w>>] :
        t \in {"Tensor", "ndarray"}, c \in 1..3, h \in 1..MaxDim, w \in 1..MaxDim}
    \cup {[type |-> t, axes |-> HWC, shape |-> <<h, w, c>>] :
        t \in {"Tensor", "ndarray"}, c \in 1..3, h \in 1..MaxDim, w \in 1..MaxDim}
    \cup {[type |-> "Image", axes |-> HWC, shape |-> <<h, w, 3>>] :
        h \in 1..MaxDim, w \in 1..MaxDim}
    \cup {[type |-> "list", axes |-> HWC, shape |-> <<1, 1, 3>>]}

\* np.transpose(image, axes): axis k of the result is axis axes[k] of image
\* (numbered from 0).
Transpose(image, axes) ==
    [axes |-> [k \in 1..3 |-> image.axes[axes[k] + 1]],
     shape |-> [k \in 1..3 |-> image.shape[axes[k] + 1]]]

\* show_image up to plt.imshow: the array handed to imshow, or the error.
show_image(image) ==
    IF image.type \notin {"Tensor", "Image", "ndarray"}
    THEN [error |-> "ValueError", axes |-> image.axes, shape |-> image.shape]
    ELSE LET a1 == image.shape[1]
             shown == IF 1 <= a1 /\ a1 <= 3
                      THEN Transpose(image, <<1, 2, 0>>)
                      ELSE [axes |-> image.axes, shape |-> image.shape] IN
         [error |-> "", axes |-> shown.axes, shape |-> shown.shape]

InitShow ==
    /\ LoaderIdle /\ MaskIdle
    /\ show_in \in ShowInputs
    /\ show_out = <<>>

\* show_image(show_in) is called.
ShowImageCall ==
    /\ show_out = <<>>
    /\ show_out' = <<show_image(show_in)>>
    /\ UNCHANGED <<loaderVars, maskVars, show_in>>

NextShow == ShowImageCall

SpecShow == InitShow /\ [][NextShow]_vars

\* ----------------------------------------------------------- properties

\* The colour images the training glob of the call's loader matches.
TrainingFound == IF loader = "semantics" THEN Glob(SEM_IMAGE_DIR) ELSE Glob(DEPTH_IMAGE_DIR)

NoRepeats(seq) == Cardinality(Range(seq)) = Len(seq)

\* C1: when either loader returns a train and a validation container, their
\* lengths add up to the number of training files found, every found file is
\* in one of them, and none is in both (nor twice in one).
C1_SplitPartitions ==
    (pc = "returned" /\ train) =>
        LET tr == Origins(result[1].train.X)
            va == Origins(result[1].val.X) IN
        /\ Len(tr) + Len(va) = Cardinality(TrainingFound)
        /\ Range(tr) \cap Range(va) = {}
        /\ Range(tr) \cup Range(va) = TrainingFound
        /\ NoRepeats(tr) /\ NoRepeats(va)
        /\ Origins(result[1].train.Y) = tr
        /\ Origins(result[1].val.Y) = va

\* A shuffled split of three semantics pairs into two and one was returned.
C1_Witness ==
    /\ pc = "returned" /\ loader = "semantics" /\ shuffle
    /\ DatasetLen(result[1].train) = 2
    /\ DatasetLen(result[1].val) = 1

\* C2: in the containers load_kitti_depth_dataset(train=True) returns, the
\* four fields have one length and the colour, sensor, mask and target tensors
\* at every index were created from the same enumerated file.
C2_TuplesFromOneFile ==
    (pc = "returned" /\ loader = "depth" /\ train) =>
        \A ds \in {result[1].train, result[1].val} :
            /\ Len(ds.X_sensor) = DatasetLen(ds)
            /\ Len(ds.X_mask) = DatasetLen(ds)
            /\ Len(ds.Y) = DatasetLen(ds)
            /\ \A i \in 1..DatasetLen(ds) :
                LET item == DepthGetItem(ds, i) IN
                /\ item[2].origin = item[1].origin
                /\ item[3].origin = item[1].origin
                /\ item[4].origin = item[1].origin

\* A depth split was returned whose samples are not in enumeration order.
C2_Witness ==
    /\ pc = "returned" /\ loader = "depth" /\ train
    /\ DatasetLen(result[1].train) >= 2
    /\ Origins(result[1].train.X) \o Origins(result[1].val.X)
         # [k \in 1..Len(visited) |-> visited[k].name]

\* The text of name before its first _image_, and the text after it.
TextBefore(name) == SubSeq(name, 1, Find(name, IMAGE_TOKEN, 1) - 1)
TextAfter(name) ==
    SubSeq(name, Find(name, IMAGE_TOKEN, 1) + Len(IMAGE_TOKEN), Len(name))
VelodyneOf(prefix, suffix) == Path(DEPTH_VELODYNE_DIR, prefix \o VELODYNE_TOKEN \o suffix)
GroundtruthOf(prefix, suffix) ==
    Path(DEPTH_GROUNDTRUTH_DIR, prefix \o GROUNDTRUTH_TOKEN \o suffix)

\* The files <prefix>_velodyne_raw_<suffix> and <prefix>_groundtruth_depth_<suffix>
\* were asked for, prefix and suffix being the text around the first _image_
\* of the name (the ground truth once the sparse depth has loaded).
SiblingsOpened(name) ==
    /\ VelodyneOf(TextBefore(name), TextAfter(name)) \in Range(opened)
    /\ LoadError(VelodyneOf(TextBefore(name), TextAfter(name))) = ""
         => GroundtruthOf(TextBefore(name), TextAfter(name)) \in Range(opened)

DepthTrainRunning == loader = "depth" /\ train

AbortedAt(k) ==
    /\ k = Len(visited)
    /\ pc = "raised" /\ result = <<>>
    /\ opened[Len(opened)] = visited[k]

AllZero(data) == \A k \in 1..Len(data) : data[k] = 0

\* C5: in the container load_kitti_depth_dataset(train=False) returns, every
\* target is all zero and has the 3-channel shape of its colour tensor, not
\* the 1-channel shape of its sparse-depth tensor, and the sparse depth was
\* read from velodyne_raw/<the same file name>.
C5_TestTargetShapedLikeColor ==
    (pc = "returned" /\ loader = "depth" /\ ~train) =>
        LET ds == result[1].test IN
        /\ {p \in Range(opened) : p.dir # DEPTH_TEST_IMAGE_DIR}
             = {Path(DEPTH_TEST_VELODYNE_DIR, visited[k].name) : k \in 1..Len(visited)}
        /\ \A i \in 1..DatasetLen(ds) :
            LET item == DepthGetItem(ds, i) IN
            /\ AllZero(item[4].tensor.data)
            /\ item[4].tensor.shape = item[1].tensor.shape
            /\ item[4].tensor.shape = <<3, ResizeHeight, ResizeWidth>>
            /\ item[2].tensor.shape = <<1, ResizeHeight, ResizeWidth>>
            /\ item[2].tensor.data
                 = ReadFile(Path(DEPTH_TEST_VELODYNE_DIR, item[1].origin)).px

\* A test container of two samples was returned.
C5_Witness ==
    /\ pc = "returned" /\ loader = "depth" /\ ~train
    /\ DatasetLen(result[1].test) = 2

\* C6 as stated: the mask has the length of the input, 1 where the input is
\* above zero and 0 everywhere else.
C6_MaskIsBinary ==
    mask_out # <<>> =>
        /\ Len(mask_out[1].px) = Len(mask_in.px)
        /\ \A k \in 1..Len(mask_in.px) :
            mask_out[1].px[k] = IF mask_in.px[k] > 0 THEN 1 ELSE 0

\* What makes the iteration on an enumerated path fail: the file or a file
\* paired with it is absent or no image, or (depth training) the name does
\* not carry exactly two _image_.
FaultyPath(p) ==
    \/ LoadError(p) # ""
    \/ p.dir = SEM_IMAGE_DIR /\ LoadError(Path(SEM_TARGET_DIR, p.name)) # ""
    \/ p.dir = DEPTH_TEST_IMAGE_DIR /\ LoadError(Path(DEPTH_TEST_VELODYNE_DIR, p.name)) # ""
    \/ p.dir = DEPTH_IMAGE_DIR /\ StrCount(p.name, IMAGE_TOKEN) # 2
    \/ /\ p.dir = DEPTH_IMAGE_DIR /\ StrCount(p.name, IMAGE_TOKEN) = 2
       /\ \/ LoadError(VelodyneOf(TextBefore(p.name), TextAfter(p.name))) # ""
          \/ LoadError(GroundtruthOf(TextBefore(p.name), TextAfter(p.name))) # ""

\* C7: a file whose loading fails is the last one the call takes from its
\* glob: the call has ended with that error and returned no container; and a
\* call that ended with an error returned nothing.
C7_ErrorAbortsCall ==
    /\ \A k \in 1..Len(visited) :
        FaultyPath(visited[k]) =>
            k = Len(visited) /\ pc = "raised" /\ err # "" /\ result = <<>>
    /\ pc = "raised" => (err # "" /\ result = <<>>)
    /\ pc = "returned" => (err = "" /\ result # <<>>)

\* The semantics loader failed on a test image after the train/validation
\* split was already computed.
C7_Witness ==
    /\ pc = "raised" /\ loader = "semantics"
    /\ split # <<>>
    /\ FaultyPath(visited[Len(visited)])
    /\ \E p \in files : p.dir = SEM_TEST_DIR /\ p \notin Range(visited)

\* C8 as stated: with a fixed random_state, a call returns the split the
\* previous call on the same directory with the same arguments returned.
C8_SameSeedSameSplit ==
    (pc = "returned" /\ train /\ random_state # <<>> /\ prev # <<>>) =>
        SplitOf(result[1]) = prev[1]

\* The extent of the axis of image that holds the given dimension.
Extent(image, label) ==
    image.shape[CHOOSE k \in 1..3 : image.axes[k] = label]

\* C9 as stated: what is handed to imshow has the shape (height, width,
\* channels) of the input, its axes in that order (the order of axes cannot
\* be told on a 1 x 1 x 1 array), and an input already in that layout is
\* handed over with its shape as it is.
C9_ShownHeightWidthChannels ==
    (show_out # <<>> /\ show_out[1].error = "") =>
        /\ show_out[1].shape
             = <<Extent(show_in, "H"), Extent(show_in, "W"), Extent(show_in, "C")>>
        /\ show_out[1].axes = HWC \/ show_in.shape = <<1, 1, 1>>
        /\ show_in.axes = HWC => show_out[1].shape = show_in.shape

\* The sparse-depth file read in the iteration of the enumerated file name.
SparseFileOf(name) ==
    IF train THEN VelodyneOf(TextBefore(name), TextAfter(name))
    ELSE Path(DEPTH_TEST_VELODYNE_DIR, name)

\* C10: in both branches of load_kitti_depth_dataset, every tensor of
\* X_sensor holds the pixel values of its sparse-depth file as they are on
\* disk, and the tensor of X_mask beside it is the 0/1 mask of those values.
C10_MaskLeavesSparseDepth ==
    loader = "depth" =>
        /\ Len(X_mask) = Len(X_sensor)
        /\ \A i \in 1..Len(X_sensor) :
            LET raw == ReadFile(SparseFileOf(X_sensor[i].origin)).px IN
            /\ X_sensor[i].tensor.data = raw
            /\ X_mask[i].origin = X_sensor[i].origin
            /\ X_mask[i].tensor.data = [k \in 1..Len(raw) |-> IF raw[k] > 0 THEN 1 ELSE 0]

\* A sparse-depth tensor with a reading above 1 sits beside its mask.
C10_Witness ==
    /\ loader = "depth"
    /\ \E i \in 1..Len(X_sensor) : \E k \in 1..Len(X_sensor[i].tensor.data) :
        /\ X_sensor[i].tensor.data[k] > 1
        /\ X_mask[i].tensor.data[k] = 1

====
